---- MODULE Spec2Model ----
(***************************************************************************)
(* State-machine model of the fighthealthinsurance REST backend:           *)
(*   - professional signup, accept and reject of domain memberships        *)
(*     (fhi_users/auth/rest_auth_views.py, fhi_users/models.py)            *)
(*   - verification and reset tokens (verify, request_reset, finish_reset) *)
(*   - denial / appeal workflow (fighthealthinsurance/rest_views.py)       *)
(* The database rows are the state; every request handler is one action.   *)
(* A ProfessionalUser / PatientUser row is identified with the id of its   *)
(* one-to-one User.                                                        *)
(***************************************************************************)
EXTENDS Integers, Sequences, FiniteSets, TLC

\* ---------------------------------------------------------------- bounds
MaxUsers == 3
MaxDomains == 2
MaxPhones == 2
MaxTokens == 2
MaxTime == 36
TickHours == 12
NumClients == 2
MaxRecords == 4
MaxPairs == 2
MaxPage == 2
MaxPageSize == 2

\* ------------------------------------------------------ program constants
\* datetime.timedelta(hours=24) of VerificationToken.save / ResetToken.save
TokenTTLHours == 24

Users == 1..MaxUsers
Domains == 1..MaxDomains
Phones == 1..MaxPhones
Tokens == 1..MaxTokens

\* Raw domain names as submitted by a client, as sequences of lexical
\* pieces: a URL scheme, the "www." label, or an opaque rest of the name.
RawNames ==
  { <<"a">>, <<"www.", "a">>, <<"https://", "www.", "b">>, <<"http://", "c">> }

NoRel ==
  [exists |-> FALSE, active |-> FALSE, admin |-> FALSE, pending |-> FALSE,
   suspended |-> FALSE, rejected |-> FALSE]
NoTok == [exists |-> FALSE, token |-> 0, expires_at |-> 0]
NoUser == 0
\* expires_at left unset by the caller of objects.create
Unset == -1
NotIssued == [kind |-> "none", user |-> NoUser, expires_at |-> Unset]
Clients == 1..NumClients
\* every Denial row comes with an Appeal row, so at most half of the rows
\* are denials
DenialIds == 1..(MaxRecords \div 2)

\* questions and answers of a QA capture; "" is the blank string
Questions == {"", "q1", "q2"}
Answers == {"", "x", "y"}
AskedQuestions == Questions \ {""}
NoAnswer == "-"
NeverAsked == [last |-> NoAnswer, nonblank |-> NoAnswer]
AppealIds == 1..(MaxRecords - 1)
Idle ==
  [pc |-> "idle", user |-> NoUser, token |-> 0, pw |-> 0, expires_at |-> 0,
   caller |-> NoUser, domain |-> 0, row |-> NoRel, quantity |-> 0]

VARIABLES
  users,      \* User rows: exists, is_active, password, email_verified, domain (of the username)
  profs,      \* ProfessionalUser rows by user id: exists, active
  patients,   \* PatientUser rows by user id: exists, active
  domains,    \* UserDomain rows: exists, name, phone, sub (stripe_subscription_id set)
  seats,      \* Stripe subscription item quantity of each domain's subscription
  rel,        \* ProfessionalDomainRelation rows keyed by <<professional, domain>>
  vtok,       \* VerificationToken row of each user: token, expires_at
  rtok,       \* ResetToken row of each user: token, expires_at
  nextTok,    \* number of token values handed out so far
  now,        \* wall clock, in hours
  last,       \* the last request handled and its response
  uses,       \* history: how many times each token value gated an activation / reset
  issued,     \* history: purpose, user and expires_at each token value was issued with
  reqs,       \* requests in flight, for the handlers taken statement by statement
  denials,    \* Denial rows
  appeals,    \* Appeal rows
  faxed,      \* history: the appeals staged as a fax and dispatched
  qa,         \* DenialQA rows of each denial, in read order: question, text_answer
  qa_context, \* Denial.qa_context of each denial, as a sequence of string pieces
  asked,      \* history: per denial and question, the last answer submitted and the last non-blank one
  notices,    \* history: <<appeal, template, already visible>> of the patient notifications sent
  statistics, \* the body of the last stats / absolute_stats response, with the windows it used
  searched    \* the last search request and the body of its response

idvars == <<users, profs, patients, domains, seats, rel>>
tokvars == <<vtok, rtok, nextTok, uses, issued>>
qavars == <<qa, qa_context, asked>>
readvars == <<statistics, searched>>
apvars == <<denials, appeals, faxed, qavars, notices, readvars>>

\* ------------------------------------------------------------ UserDomain

\* UserDomain._clean_name: re.sub(r"^https?://(?:www\.)?|^www\.", "", name)
CleanName(name) ==
  IF name = <<>> THEN name
  ELSE IF Head(name) \in {"http://", "https://"}
       THEN IF Len(name) >= 2 /\ name[2] = "www."
            THEN SubSeq(name, 3, Len(name))
            ELSE Tail(name)
       ELSE IF Head(name) = "www." THEN Tail(name) ELSE name

\* UserDomain.find_by_name: the domains whose stored name is the cleaned name
find_by_name(name) ==
  IF name = <<>> THEN {}
  ELSE { d \in Domains : domains[d].exists /\ domains[d].name = CleanName(name) }

\* UserDomain.objects.filter(visible_phone_number=...)
find_by_phone(phone) ==
  { d \in Domains : domains[d].exists /\ domains[d].phone = phone }

\* UserDomain.save: the name is cleaned on every save
SavedDomain(name, phone) ==
  [exists |-> TRUE, name |-> CleanName(name), phone |-> phone, sub |-> FALSE]

\* ------------------------------------------------ ProfessionalDomainRelation

\* pre_save signal: active is recomputed from pending / suspended / rejected
professional_domain_relation_presave_stale(r) == r

professional_domain_relation_presave_norejected(r) ==
  [r EXCEPT !.active = ~r.pending /\ ~r.suspended]

professional_domain_relation_presave(r) ==
  [r EXCEPT !.active = ~r.pending /\ ~r.suspended /\ ~r.rejected]

\* auth_utils.user_is_admin_in_domain: the caller has an active admin
\* relation in the domain
user_is_admin_in_domain(u, d) ==
  /\ rel[<<u, d>>].exists
  /\ rel[<<u, d>>].admin
  /\ rel[<<u, d>>].active

\* ProfessionalDomainRelation.objects.get(professional_id=, pending=True, domain_id=)
PendingRelation(p, d) == rel[<<p, d>>].exists /\ rel[<<p, d>>].pending

\* The record kept of the last request and its response: the operation, the
\* calling user, its two parameters, the HTTP status and the message.  n
\* alternates with every request, so that every request is a step.
Resp(op, caller, a, b, status, msg) ==
  [op |-> op, caller |-> caller, a |-> a, b |-> b, status |-> status, msg |-> msg,
   n |-> 1 - last.n]

\* --------------------------------------------------------------- calendar

\* a date is <<year, month, day>>; an instant is <<year, month, day, second
\* of the day, microsecond>>
NoDate == <<0, 0, 0>>
NoInstant == <<0, 0, 0, 0, 0>>

IsLeap(y) == y % 4 = 0 /\ (y % 100 # 0 \/ y % 400 = 0)

DaysIn(y, m) ==
  IF m \in {4, 6, 9, 11} THEN 30
  ELSE IF m = 2 THEN (IF IsLeap(y) THEN 29 ELSE 28)
  ELSE 31

\* datetime.date()
date(t) == <<t[1], t[2], t[3]>>

DateLE(x, y) ==
  \/ x[1] < y[1]
  \/ x[1] = y[1] /\ x[2] < y[2]
  \/ x[1] = y[1] /\ x[2] = y[2] /\ x[3] <= y[3]

PrevDay(x) ==
  IF x[3] > 1 THEN <<x[1], x[2], x[3] - 1>>
  ELSE IF x[2] > 1 THEN <<x[1], x[2] - 1, DaysIn(x[1], x[2] - 1)>>
  ELSE <<x[1] - 1, 12, 31>>

NextDay(x) ==
  IF x[3] < DaysIn(x[1], x[2]) THEN <<x[1], x[2], x[3] + 1>>
  ELSE IF x[2] < 12 THEN <<x[1], x[2] + 1, 1>>
  ELSE <<x[1] + 1, 1, 1>>

\* t + relativedelta(months=n), n of either sign: the month is moved and the
\* day is clamped to the last day of the new month; relativedelta(years=1)
\* is twelve months
relativedelta_months(t, n) ==
  LET k == t[1] * 12 + (t[2] - 1) + n
      y == k \div 12
      m == (k % 12) + 1
      d == IF t[3] > DaysIn(y, m) THEN DaysIn(y, m) ELSE t[3]
  IN <<y, m, d, t[4], t[5]>>

\* t - relativedelta(microseconds=1)
minus_microsecond(t) ==
  IF t[5] > 0 THEN <<t[1], t[2], t[3], t[4], t[5] - 1>>
  ELSE IF t[4] > 0 THEN <<t[1], t[2], t[3], t[4] - 1, 999999>>
  ELSE LET x == PrevDay(date(t)) IN <<x[1], x[2], x[3], 86399, 999999>>

\* the instant one microsecond after t
plus_microsecond(t) ==
  IF t[5] < 999999 THEN <<t[1], t[2], t[3], t[4], t[5] + 1>>
  ELSE IF t[4] < 86399 THEN <<t[1], t[2], t[3], t[4] + 1, 0>>
  ELSE LET x == NextDay(date(t)) IN <<x[1], x[2], x[3], 0, 0>>

\* the date at hour 0 of the clock, and the date the clock shows
Epoch == <<2025, 3, 30>>
Today == IF now < 24 THEN Epoch ELSE NextDay(Epoch)

\* ------------------------------------------------------------------ Init

NoUserRow ==
  [exists |-> FALSE, is_active |-> FALSE, password |-> 0, email_verified |-> FALSE,
   domain |-> 0]
NoProfile == [exists |-> FALSE, active |-> FALSE]
NoDomain == [exists |-> FALSE, name |-> <<>>, phone |-> 0, sub |-> FALSE]
NoDenial ==
  [exists |-> FALSE, patient |-> NoUser, primary |-> NoUser, creating |-> NoUser,
   domain |-> 0, professional_to_finish |-> FALSE]
NoAppeal ==
  [exists |-> FALSE, denial |-> 0, patient |-> NoUser, primary |-> NoUser,
   creating |-> NoUser, domain |-> 0, pending |-> FALSE, pending_patient |-> FALSE,
   pending_professional |-> FALSE, sent |-> FALSE, patient_visible |-> FALSE,
   assembled |-> FALSE, fax_number |-> "none", success |-> FALSE,
   response_date |-> NoDate, creation_date |-> NoDate, mod_date |-> 0,
   texts |-> {}]

\* no search request yet
NoSearch ==
  [q |-> "", caller |-> NoUser, page |-> 0, page_size |-> 0, status |-> 0,
   count |-> 0, next |-> FALSE, previous |-> FALSE, results |-> <<>>]

\* a response body before any statistics request
NoCounts ==
  [total |-> 0, pending |-> 0, sent |-> 0, successful |-> 0, with_response |-> 0,
   success_rate |-> [num |-> 0, den |-> 1], patients |-> 0]
NoStatistics ==
  [kind |-> "none", delta |-> "", period_start |-> NoInstant, period_end |-> NoInstant,
   previous_start |-> NoInstant, previous_end |-> NoInstant,
   current |-> NoCounts, previous |-> NoCounts]

\* One practice already exists, with or without a Stripe subscription; it is
\* administered by user 1.  User 2 is an activated patient.
InitRest ==
  /\ users = [u \in Users |->
       IF u \in {1, 2}
       THEN [exists |-> TRUE, is_active |-> TRUE, password |-> 1, email_verified |-> TRUE,
             domain |-> 1]
       ELSE NoUserRow]
  /\ profs = [u \in Users |->
       IF u = 1 THEN [exists |-> TRUE, active |-> TRUE] ELSE NoProfile]
  /\ patients = [u \in Users |->
       IF u = 2 THEN [exists |-> TRUE, active |-> TRUE] ELSE NoProfile]
  /\ \E sub \in BOOLEAN :
       /\ domains = [d \in Domains |->
            IF d = 1 THEN [exists |-> TRUE, name |-> <<"a">>, phone |-> 1, sub |-> sub]
            ELSE NoDomain]
       /\ seats = [d \in Domains |-> IF d = 1 /\ sub THEN 1 ELSE 0]
  /\ rel = [k \in Users \X Domains |->
       IF k = <<1, 1>>
       THEN [exists |-> TRUE, active |-> TRUE, admin |-> TRUE, pending |-> FALSE,
             suspended |-> FALSE, rejected |-> FALSE]
       ELSE NoRel]
  /\ vtok = [u \in Users |-> NoTok]
  /\ rtok = [u \in Users |-> NoTok]
  /\ nextTok = 0
  /\ now = 0
  /\ last = [op |-> "none", caller |-> NoUser, a |-> 0, b |-> 0, status |-> 0,
             msg |-> "", n |-> 0]
  /\ uses = [t \in Tokens |-> 0]
  /\ issued = [t \in Tokens |-> NotIssued]
  /\ reqs = [i \in Clients |-> Idle]
  /\ faxed = {}
  /\ qa = [d \in DenialIds |-> <<>>]
  /\ qa_context = [d \in DenialIds |-> <<>>]
  /\ asked = [d \in DenialIds |-> [q \in AskedQuestions |-> NeverAsked]]
  /\ notices = {}
  /\ statistics = NoStatistics
  /\ searched = NoSearch

Init ==
  /\ InitRest
  /\ denials = [d \in DenialIds |-> NoDenial]
  /\ appeals = [a \in AppealIds |-> NoAppeal]

\* ---------------------------------------------------------------- tokens

\* VerificationToken.save / ResetToken.save: an unset expires_at becomes
\* creation time + 24 hours
TokenSave(token, expires_at) ==
  [exists |-> TRUE, token |-> token,
   expires_at |-> IF expires_at = Unset THEN now + TokenTTLHours ELSE expires_at]

\* emails.send_verification_email: the user's previous verification token
\* is replaced by a fresh one
send_verification_email(u, vt) ==
  [vt EXCEPT ![u] = TokenSave(nextTok + 1, Unset)]

\* the authenticated callers: request.user of an IsAuthenticated view
Authenticated(u) == users[u].exists /\ users[u].is_active

\* the id the next created User row gets
NextUserId == Cardinality({u \in Users : users[u].exists}) + 1
NextDomainId == Cardinality({d \in Domains : domains[d].exists}) + 1

\* ------------------------------------------- ProfessionalUserViewSet.create

\* perform_create.  info is the user_domain part of the request: "absent",
\* "same" (name and phone equal to or defaulted from the signup info) or
\* "other" (a different name or phone).
Signup(name, phone, new_domain, info) ==
  LET u == NextUserId
      d == NextDomainId
      fail(msg) == /\ last' = Resp("signup", NoUser, 0, 0, 400, msg)
                   /\ UNCHANGED <<idvars, tokvars, now, reqs, apvars>>
      doms == IF new_domain /\ d \in Domains
              THEN [domains EXCEPT ![d] = SavedDomain(name, phone)]
              ELSE domains
      found == { x \in Domains : doms[x].exists /\ doms[x].name = CleanName(name) }
  IN
  IF ~new_domain /\ info # "absent"
  THEN FALSE   \* user_domain is only read for a new domain
  ELSE IF ~new_domain /\ find_by_name(name) = {} /\ find_by_phone(phone) = {}
  THEN fail("Domain does not exist")
  ELSE IF new_domain /\ find_by_name(name) # {}
  THEN fail("Domain already exists")
  ELSE IF new_domain /\ find_by_phone(phone) # {}
  THEN fail("Visible phone number already exists")
  ELSE IF new_domain /\ info = "absent"
  THEN fail("Need domain info when making a new domain or solo provider")
  ELSE IF new_domain /\ info = "other"
  THEN fail("Domain name and user domain name must match")
  ELSE IF new_domain /\ d \notin Domains
  THEN FALSE   \* no room left for another UserDomain row
  ELSE IF found = {}
  THEN \* UserDomain.find_by_name(name=domain_name).get() raises DoesNotExist
       /\ last' = Resp("signup", NoUser, 0, 0, 500, "DoesNotExist")
       /\ UNCHANGED <<idvars, tokvars, now, reqs, apvars>>
  ELSE
       /\ u \in Users
       /\ nextTok < MaxTokens
       /\ domains' = doms
       /\ users' = [users EXCEPT ![u] =
            [exists |-> TRUE, is_active |-> FALSE, password |-> 1,
             email_verified |-> FALSE, domain |-> CHOOSE x \in found : TRUE]]
       /\ vtok' = send_verification_email(u, vtok)
       /\ issued' = [issued EXCEPT ![nextTok + 1] =
            [kind |-> "verify", user |-> u, expires_at |-> vtok'[u].expires_at]]
       /\ nextTok' = nextTok + 1
       /\ profs' = [profs EXCEPT ![u] = [exists |-> TRUE, active |-> FALSE]]
       /\ rel' = [rel EXCEPT ![<<u, CHOOSE x \in found : TRUE>>] =
            professional_domain_relation_presave(
              [exists |-> TRUE, active |-> FALSE, admin |-> new_domain,
               pending |-> TRUE, suspended |-> FALSE, rejected |-> FALSE])]
       /\ last' = Resp("signup", u, CHOOSE x \in found : TRUE, phone, 200, "next_url")
       /\ UNCHANGED <<patients, seats, rtok, uses, now, reqs, apvars>>

\* ------------------------------------------- ProfessionalUserViewSet.accept

\* stripe_ok: whether stripe.Subscription.retrieve / modify return or raise
Accept(caller, p, d, stripe_ok) ==
  /\ Authenticated(caller)
  /\ ~stripe_ok =>   \* a Stripe failure needs a Stripe call
       (user_is_admin_in_domain(caller, d) /\ PendingRelation(p, d) /\ domains[d].sub)
  /\ IF ~user_is_admin_in_domain(caller, d)
     THEN /\ last' = Resp("accept", caller, p, d, 403, "User does not have admin privileges")
          /\ UNCHANGED <<idvars, tokvars, now, reqs, apvars>>
     ELSE IF ~PendingRelation(p, d)
     THEN /\ last' = Resp("accept", caller, p, d, 404, "Relation not found or already accepted")
          /\ UNCHANGED <<idvars, tokvars, now, reqs, apvars>>
     ELSE /\ profs' = [profs EXCEPT ![p].active = TRUE]
          /\ rel' = [rel EXCEPT ![<<p, d>>] =
               professional_domain_relation_presave([rel[<<p, d>>] EXCEPT !.pending = FALSE])]
          /\ IF domains[d].sub
             THEN IF stripe_ok
                  THEN /\ seats' = [seats EXCEPT ![d] = seats[d] + 1]
                       /\ last' = Resp("accept", caller, p, d, 200, "accepted")
                  ELSE \* the Stripe call raises after both rows were saved
                       /\ seats' = seats
                       /\ last' = Resp("accept", caller, p, d, 500, "StripeError")
             ELSE /\ seats' = seats
                  /\ last' = Resp("accept", caller, p, d, 200, "accepted")
          /\ UNCHANGED <<users, patients, domains, tokvars, now, reqs, apvars>>

\* accept taken statement by statement, for requests that overlap

\* accept: the admin check and the lookup of the pending relation
A_Get(i, caller, p, d) ==
  /\ reqs[i].pc = "idle"
  /\ Authenticated(caller)
  /\ IF ~user_is_admin_in_domain(caller, d)
     THEN /\ last' = Resp("accept", caller, p, d, 403, "User does not have admin privileges")
          /\ UNCHANGED <<idvars, tokvars, now, reqs, apvars>>
     ELSE IF ~PendingRelation(p, d)
     THEN /\ last' = Resp("accept", caller, p, d, 404, "Relation not found or already accepted")
          /\ UNCHANGED <<idvars, tokvars, now, reqs, apvars>>
     ELSE /\ reqs' = [reqs EXCEPT ![i] =
               [Idle EXCEPT !.pc = "a_got", !.caller = caller, !.user = p,
                            !.domain = d, !.row = rel[<<p, d>>]]]
          /\ UNCHANGED <<idvars, tokvars, now, last, apvars>>

\* accept with the saves made only while the relation is still pending
A_Save_Guarded(i) ==
  LET p == reqs[i].user
      d == reqs[i].domain
  IN
  /\ reqs[i].pc = "a_got"
  /\ IF ~PendingRelation(p, d)
     THEN /\ last' = Resp("accept", reqs[i].caller, p, d, 404, "Relation not found or already accepted")
          /\ reqs' = [reqs EXCEPT ![i] = Idle]
          /\ UNCHANGED <<idvars, tokvars, now, apvars>>
     ELSE /\ profs' = [profs EXCEPT ![p].active = TRUE]
          /\ rel' = [rel EXCEPT ![<<p, d>>] =
               professional_domain_relation_presave([reqs[i].row EXCEPT !.pending = FALSE])]
          /\ IF domains[d].sub
             THEN /\ reqs' = [reqs EXCEPT ![i].pc = "a_saved"]
                  /\ UNCHANGED last
             ELSE /\ reqs' = [reqs EXCEPT ![i] = Idle]
                  /\ last' = Resp("accept", reqs[i].caller, p, d, 200, "accepted")
          /\ UNCHANGED <<users, patients, domains, seats, tokvars, now, apvars>>

\* accept: professional_user.save() and relation.save() of the rows read;
\* without a subscription the request ends here
A_Save(i) ==
  LET p == reqs[i].user
      d == reqs[i].domain
  IN
  /\ reqs[i].pc = "a_got"
  /\ profs' = [profs EXCEPT ![p].active = TRUE]
  /\ rel' = [rel EXCEPT ![<<p, d>>] =
       professional_domain_relation_presave([reqs[i].row EXCEPT !.pending = FALSE])]
  /\ IF domains[d].sub
     THEN /\ reqs' = [reqs EXCEPT ![i].pc = "a_saved"]
          /\ UNCHANGED last
     ELSE /\ reqs' = [reqs EXCEPT ![i] = Idle]
          /\ last' = Resp("accept", reqs[i].caller, p, d, 200, "accepted")
  /\ UNCHANGED <<users, patients, domains, seats, tokvars, now, apvars>>

\* accept: stripe.Subscription.retrieve reads the quantity, or raises
A_Retrieve(i, stripe_ok) ==
  /\ reqs[i].pc = "a_saved"
  /\ IF stripe_ok
     THEN /\ reqs' = [reqs EXCEPT ![i].pc = "a_read",
                                  ![i].quantity = seats[reqs[i].domain]]
          /\ UNCHANGED last
     ELSE /\ reqs' = [reqs EXCEPT ![i] = Idle]
          /\ last' = Resp("accept", reqs[i].caller, reqs[i].user, reqs[i].domain,
                          500, "StripeError")
  /\ UNCHANGED <<idvars, tokvars, now, apvars>>

\* accept: stripe.Subscription.modify writes the quantity read plus one, or
\* raises; then the response
A_Modify(i, stripe_ok) ==
  /\ reqs[i].pc = "a_read"
  /\ reqs' = [reqs EXCEPT ![i] = Idle]
  /\ IF stripe_ok
     THEN /\ seats' = [seats EXCEPT ![reqs[i].domain] = reqs[i].quantity + 1]
          /\ last' = Resp("accept", reqs[i].caller, reqs[i].user, reqs[i].domain,
                          200, "accepted")
     ELSE /\ UNCHANGED seats
          /\ last' = Resp("accept", reqs[i].caller, reqs[i].user, reqs[i].domain,
                          500, "StripeError")
  /\ UNCHANGED <<users, profs, patients, domains, rel, tokvars, now, apvars>>

\* ------------------------------------------- ProfessionalUserViewSet.reject

Reject_NoAdminCheck(caller, p, d) ==
  /\ Authenticated(caller)
  /\ IF ~PendingRelation(p, d)
     THEN /\ last' = Resp("reject", caller, p, d, 500, "DoesNotExist")
          /\ UNCHANGED <<idvars, tokvars, now, reqs, apvars>>
     ELSE /\ rel' = [rel EXCEPT ![<<p, d>>] =
               professional_domain_relation_presave(
                 [rel[<<p, d>>] EXCEPT !.pending = FALSE, !.rejected = TRUE,
                                       !.active = FALSE])]
          /\ last' = Resp("reject", caller, p, d, 204, "rejected")
          /\ UNCHANGED <<users, profs, patients, domains, seats, tokvars, now, reqs, apvars>>

Reject(caller, p, d) ==
  /\ Authenticated(caller)
  /\ IF ~user_is_admin_in_domain(caller, d)
     THEN /\ last' = Resp("reject", caller, p, d, 403, "User does not have admin privileges")
          /\ UNCHANGED <<idvars, tokvars, now, reqs, apvars>>
     ELSE IF ~PendingRelation(p, d)
     THEN \* ProfessionalDomainRelation.objects.get raises DoesNotExist
          /\ last' = Resp("reject", caller, p, d, 500, "DoesNotExist")
          /\ UNCHANGED <<idvars, tokvars, now, reqs, apvars>>
     ELSE /\ rel' = [rel EXCEPT ![<<p, d>>] =
               professional_domain_relation_presave(
                 [rel[<<p, d>>] EXCEPT !.pending = FALSE, !.rejected = TRUE,
                                       !.active = FALSE])]
          /\ last' = Resp("reject", caller, p, d, 204, "rejected")
          /\ UNCHANGED <<users, profs, patients, domains, seats, tokvars, now, reqs, apvars>>

\* ------------------------------------------------- VerifyEmailViewSet

\* verify.  The two trailing .update(is_active=True) calls name a field
\* that PatientUser / ProfessionalUser do not have; the FieldDoesNotExist
\* they raise is swallowed by the bare except, so no profile row changes.
Verify_KeepToken(uid, token) ==
  IF uid \notin Users \/ ~users[uid].exists
  THEN /\ last' = Resp("verify", NoUser, uid, token, 400,
                       "Invalid activation link [user not found]")
       /\ UNCHANGED <<idvars, tokvars, now, reqs, apvars>>
  ELSE IF ~(vtok[uid].exists /\ vtok[uid].token = token)
  THEN /\ last' = Resp("verify", NoUser, uid, token, 400, "Invalid activation link")
       /\ UNCHANGED <<idvars, tokvars, now, reqs, apvars>>
  ELSE IF now > vtok[uid].expires_at
  THEN /\ last' = Resp("verify", NoUser, uid, token, 500, "Activation link has expired")
       /\ UNCHANGED <<idvars, tokvars, now, reqs, apvars>>
  ELSE /\ users' = [users EXCEPT ![uid].is_active = TRUE, ![uid].email_verified = TRUE]
       /\ uses' = [uses EXCEPT ![token] = @ + 1]
       /\ last' = Resp("verify", NoUser, uid, token, 200, "success")
       /\ UNCHANGED <<profs, patients, domains, seats, rel, vtok, rtok, nextTok, issued,
                      now, reqs, apvars>>

Verify(uid, token) ==
  IF uid \notin Users \/ ~users[uid].exists
  THEN /\ last' = Resp("verify", NoUser, uid, token, 400,
                       "Invalid activation link [user not found]")
       /\ UNCHANGED <<idvars, tokvars, now, reqs, apvars>>
  ELSE IF ~(vtok[uid].exists /\ vtok[uid].token = token)
  THEN /\ last' = Resp("verify", NoUser, uid, token, 400, "Invalid activation link")
       /\ UNCHANGED <<idvars, tokvars, now, reqs, apvars>>
  ELSE IF now > vtok[uid].expires_at
  THEN /\ last' = Resp("verify", NoUser, uid, token, 500, "Activation link has expired")
       /\ UNCHANGED <<idvars, tokvars, now, reqs, apvars>>
  ELSE /\ users' = [users EXCEPT ![uid].is_active = TRUE, ![uid].email_verified = TRUE]
       /\ vtok' = [vtok EXCEPT ![uid] = NoTok]
       /\ uses' = [uses EXCEPT ![token] = @ + 1]
       /\ last' = Resp("verify", NoUser, uid, token, 200, "success")
       /\ UNCHANGED <<profs, patients, domains, seats, rel, rtok, nextTok, issued, now, reqs, apvars>>

\* resend ("Resends verification email for unverified users"):
\* send_verification_email for the user
Resend(uid) ==
  /\ users[uid].exists
  /\ ~users[uid].email_verified
  /\ nextTok < MaxTokens
  /\ vtok' = send_verification_email(uid, vtok)
  /\ issued' = [issued EXCEPT ![nextTok + 1] =
       [kind |-> "verify", user |-> uid, expires_at |-> vtok'[uid].expires_at]]
  /\ nextTok' = nextTok + 1
  /\ last' = Resp("resend", NoUser, uid, nextTok + 1, 200, "verification email resent")
  /\ UNCHANGED <<idvars, rtok, uses, now, reqs, apvars>>

\* ------------------------------------------------- PasswordResetViewSet

\* request_reset: ResetToken.objects.filter(user=user).delete() and then
\* ResetToken.objects.create(user=user)
request_reset_rows_keep(u, rt) ==
  IF rt[u].exists THEN rt ELSE [rt EXCEPT ![u] = TokenSave(nextTok + 1, Unset)]

request_reset_rows(u, rt) ==
  [rt EXCEPT ![u] = TokenSave(nextTok + 1, Unset)]

RequestReset(uid) ==
  IF uid \notin Users \/ ~users[uid].exists
  THEN /\ last' = Resp("request_reset", NoUser, uid, 0, 400, "User.DoesNotExist")
       /\ UNCHANGED <<idvars, tokvars, now, reqs, apvars>>
  ELSE /\ nextTok < MaxTokens
       /\ rtok' = request_reset_rows(uid, rtok)
       /\ issued' = [issued EXCEPT ![nextTok + 1] =
            [kind |-> "reset", user |-> uid, expires_at |-> rtok'[uid].expires_at]]
       /\ nextTok' = nextTok + 1
       /\ last' = Resp("request_reset", NoUser, uid, nextTok + 1, 200, "reset_requested")
       /\ UNCHANGED <<idvars, vtok, uses, now, reqs, apvars>>

\* ResetToken.objects.get(token=...): the users holding that token value
ResetTokenOwners(token) == { u \in Users : rtok[u].exists /\ rtok[u].token = token }

FinishReset(token, new_password) ==
  IF ResetTokenOwners(token) = {}
  THEN /\ last' = Resp("finish_reset", NoUser, 0, token, 400, "Invalid reset token")
       /\ UNCHANGED <<idvars, tokvars, now, reqs, apvars>>
  ELSE LET u == CHOOSE x \in ResetTokenOwners(token) : TRUE IN
       IF now > rtok[u].expires_at
       THEN /\ rtok' = [rtok EXCEPT ![u] = NoTok]
            /\ last' = Resp("finish_reset", NoUser, u, token, 400, "Reset token has expired")
            /\ UNCHANGED <<idvars, vtok, nextTok, uses, issued, now, reqs, apvars>>
       ELSE /\ users' = [users EXCEPT ![u].password = new_password]
            /\ rtok' = [rtok EXCEPT ![u] = NoTok]
            /\ uses' = [uses EXCEPT ![token] = @ + 1]
            /\ last' = Resp("finish_reset", NoUser, u, token, 200, "password_reset_complete")
            /\ UNCHANGED <<profs, patients, domains, seats, rel, vtok, nextTok, issued, now, reqs, apvars>>

\* ------------------------------------- verify / finish_reset by statement

\* Each client has at most one request in flight; a request runs the
\* handler's database statements one at a time, so that the statements of
\* two requests interleave.

\* reset_token.delete() / verification_token.delete(): deletes the row the
\* request read, if it is still stored
DeleteRow(rows, u, token) ==
  IF rows[u].exists /\ rows[u].token = token THEN [rows EXCEPT ![u] = NoTok] ELSE rows

\* finish_reset: ResetToken.objects.get(token=data["token"])
FR_Get(i, token, new_password) ==
  /\ reqs[i].pc = "idle"
  /\ IF ResetTokenOwners(token) = {}
     THEN /\ last' = Resp("finish_reset", NoUser, 0, token, 400, "Invalid reset token")
          /\ UNCHANGED <<idvars, tokvars, now, reqs, apvars>>
     ELSE LET u == CHOOSE x \in ResetTokenOwners(token) : TRUE IN
          /\ reqs' = [reqs EXCEPT ![i] =
               [Idle EXCEPT !.pc = "fr_got", !.user = u, !.token = token,
                !.pw = new_password, !.expires_at = rtok[u].expires_at]]
          /\ UNCHANGED <<idvars, tokvars, now, last, apvars>>

\* finish_reset: the expiry check, then user.set_password and user.save()
FR_Save(i) ==
  /\ reqs[i].pc = "fr_got"
  /\ IF now > reqs[i].expires_at
     THEN /\ rtok' = DeleteRow(rtok, reqs[i].user, reqs[i].token)
          /\ reqs' = [reqs EXCEPT ![i] = Idle]
          /\ last' = Resp("finish_reset", NoUser, reqs[i].user, reqs[i].token, 400,
                          "Reset token has expired")
          /\ UNCHANGED <<idvars, vtok, nextTok, uses, issued, now, apvars>>
     ELSE /\ users' = [users EXCEPT ![reqs[i].user].password = reqs[i].pw]
          /\ uses' = [uses EXCEPT ![reqs[i].token] = @ + 1]
          /\ reqs' = [reqs EXCEPT ![i].pc = "fr_saved"]
          /\ UNCHANGED <<profs, patients, domains, seats, rel, vtok, rtok, nextTok,
                         issued, now, last, apvars>>

\* finish_reset: reset_token.delete() and the response
FR_Delete(i) ==
  /\ reqs[i].pc = "fr_saved"
  /\ rtok' = DeleteRow(rtok, reqs[i].user, reqs[i].token)
  /\ reqs' = [reqs EXCEPT ![i] = Idle]
  /\ last' = Resp("finish_reset", NoUser, reqs[i].user, reqs[i].token, 200,
                  "password_reset_complete")
  /\ UNCHANGED <<idvars, vtok, nextTok, uses, issued, now, apvars>>

\* verify: User.objects.get, VerificationToken.objects.get and the expiry check
V_Get(i, uid, token) ==
  /\ reqs[i].pc = "idle"
  /\ IF uid \notin Users \/ ~users[uid].exists
     THEN /\ last' = Resp("verify", NoUser, uid, token, 400,
                          "Invalid activation link [user not found]")
          /\ UNCHANGED <<idvars, tokvars, now, reqs, apvars>>
     ELSE IF ~(vtok[uid].exists /\ vtok[uid].token = token)
     THEN /\ last' = Resp("verify", NoUser, uid, token, 400, "Invalid activation link")
          /\ UNCHANGED <<idvars, tokvars, now, reqs, apvars>>
     ELSE IF now > vtok[uid].expires_at
     THEN /\ last' = Resp("verify", NoUser, uid, token, 500, "Activation link has expired")
          /\ UNCHANGED <<idvars, tokvars, now, reqs, apvars>>
     ELSE /\ reqs' = [reqs EXCEPT ![i] =
               [Idle EXCEPT !.pc = "v_got", !.user = uid, !.token = token,
                !.expires_at = vtok[uid].expires_at]]
          /\ UNCHANGED <<idvars, tokvars, now, last, apvars>>

\* verify: user.is_active = True, user.save(), email_verified = True
V_Activate(i) ==
  /\ reqs[i].pc = "v_got"
  /\ users' = [users EXCEPT ![reqs[i].user].is_active = TRUE,
                            ![reqs[i].user].email_verified = TRUE]
  /\ uses' = [uses EXCEPT ![reqs[i].token] = @ + 1]
  /\ reqs' = [reqs EXCEPT ![i].pc = "v_saved"]
  /\ UNCHANGED <<profs, patients, domains, seats, rel, vtok, rtok, nextTok, issued,
                 now, last, apvars>>

\* verify: verification_token.delete() and the response
V_Delete(i) ==
  /\ reqs[i].pc = "v_saved"
  /\ vtok' = DeleteRow(vtok, reqs[i].user, reqs[i].token)
  /\ reqs' = [reqs EXCEPT ![i] = Idle]
  /\ last' = Resp("verify", NoUser, reqs[i].user, reqs[i].token, 200, "success")
  /\ UNCHANGED <<idvars, rtok, nextTok, uses, issued, now, apvars>>

\* --------------------------------------------------- denials and appeals

\* the caller has an active membership in the domain
ActiveMember(u, d) ==
  /\ d \in Domains
  /\ profs[u].exists
  /\ rel[<<u, d>>].exists
  /\ rel[<<u, d>>].active

\* the visibility rule of Denial.filter_to_allowed_denials and
\* Appeal.filter_to_allowed_appeals: the caller is the patient on the
\* record, its primary or creating professional, or an active member of
\* the domain that owns it
VisibleRecord(u, r) ==
  \/ patients[u].exists /\ r.patient = u
  \/ profs[u].exists /\ (r.primary = u \/ r.creating = u)
  \/ ActiveMember(u, r.domain)

filter_to_allowed_denials(u) ==
  { d \in DenialIds : denials[d].exists /\ VisibleRecord(u, denials[d]) }

filter_to_allowed_appeals(u) ==
  { a \in AppealIds : appeals[a].exists /\ VisibleRecord(u, appeals[a]) }

\* Appeal.objects.filter(for_denial=denial)
AppealsOf(d) == { a \in AppealIds : appeals[a].exists /\ appeals[a].denial = d }

NextDenialId == Cardinality({d \in DenialIds : denials[d].exists}) + 1
NextAppealId == Cardinality({a \in AppealIds : appeals[a].exists}) + 1

\* the Denial and Appeal tables have room for k more rows
Room(k) == (NextDenialId - 1) + (NextAppealId - 1) + k <= MaxRecords

\* a new Appeal row: the fields given by the caller, the model's defaults
\* (pending = True) for the others
NewAppeal(d, patient, primary, creating, domain, assembled) ==
  [exists |-> TRUE, denial |-> d, patient |-> patient, primary |-> primary,
   creating |-> creating, domain |-> domain, pending |-> TRUE,
   pending_patient |-> FALSE, pending_professional |-> FALSE, sent |-> FALSE,
   patient_visible |-> FALSE, assembled |-> assembled, fax_number |-> "none",
   success |-> FALSE, response_date |-> NoDate, creation_date |-> Today,
   mod_date |-> now, texts |-> {}]

\* DenialCreatorHelper.create_or_update_denial: a new Denial owned by the
\* creating professional's domain, or the given Denial with the submitted
\* fields overwritten
create_or_update_denial(caller, did, patient, primary, ptf) ==
  IF did = 0
  THEN [exists |-> TRUE, patient |-> patient, primary |-> primary, creating |-> caller,
        domain |-> users[caller].domain, professional_to_finish |-> ptf]
  ELSE [denials[did] EXCEPT
          !.patient = IF patient = NoUser THEN @ ELSE patient,
          !.primary = IF primary = NoUser THEN @ ELSE primary,
          !.professional_to_finish = ptf]

\* the "Creating a pending appeal" lookup of perform_create:
\* Appeal.objects.get(for_denial=denial) returns a row only when exactly one
\* matches; DoesNotExist and MultipleObjectsReturned both reach the except
HasPendingLookupHit(d) == Cardinality(AppealsOf(d)) = 1

\* DenialViewSet.perform_create.  did = 0: no denial_id submitted.
\* patient / primary = NoUser: none submitted.
DenialCreate(caller, did, patient, primary, ptf) ==
  /\ Authenticated(caller)
  \* a request that fails before its body is read is taken with an empty body
  /\ ~profs[caller].exists => did = 0
  /\ (~profs[caller].exists \/ (did # 0 /\ did \notin filter_to_allowed_denials(caller)))
       => (patient = NoUser /\ ~ptf)
  /\ IF ~profs[caller].exists
     THEN \* ProfessionalUser.objects.get(user=current_user) raises
          /\ last' = Resp("denial", caller, 0, 0, 500, "ProfessionalUser.DoesNotExist")
          /\ UNCHANGED <<idvars, tokvars, now, reqs, apvars>>
     ELSE IF did # 0 /\ did \notin filter_to_allowed_denials(caller)
     THEN /\ last' = Resp("denial", caller, did, 0, 500, "Denial.DoesNotExist")
          /\ UNCHANGED <<idvars, tokvars, now, reqs, apvars>>
     ELSE LET d == IF did = 0 THEN NextDenialId ELSE did
              row == create_or_update_denial(caller, did, patient, primary, ptf)
              a == NextAppealId
          IN
          /\ ~HasPendingLookupHit(d) => Room(IF did = 0 THEN 2 ELSE 1)
          /\ denials' = [denials EXCEPT ![d] = row]
          /\ IF HasPendingLookupHit(d)
             THEN /\ appeals' = appeals
                  /\ last' = Resp("denial", caller, d, 0, 200, "denial")
             ELSE /\ appeals' = [appeals EXCEPT ![a] =
                       NewAppeal(d, row.patient, row.primary, row.creating, 0, FALSE)]
                  /\ last' = Resp("denial", caller, d, a, 200, "denial")
          /\ UNCHANGED <<idvars, tokvars, now, reqs, faxed, qavars, notices, readvars>>

\* AppealAssemblyHelper.create_or_update_appeal: the given Appeal with the
\* assembled text and metadata stored, or a new Appeal when none is given
create_or_update_appeal(a, d, domain) ==
  IF a = 0
  THEN NewAppeal(d, denials[d].patient, denials[d].primary, denials[d].creating,
                 domain, TRUE)
  ELSE [appeals[a] EXCEPT !.denial = d, !.patient = denials[d].patient,
                          !.primary = denials[d].primary,
                          !.creating = denials[d].creating,
                          !.domain = domain, !.assembled = TRUE]

\* AppealViewSet.assemble_appeal
AssembleAppeal(caller, d) ==
  /\ Authenticated(caller)
  /\ IF d \notin filter_to_allowed_denials(caller)
     THEN /\ last' = Resp("assemble_appeal", caller, d, 0, 500, "Denial.DoesNotExist")
          /\ UNCHANGED <<idvars, tokvars, now, reqs, apvars>>
     ELSE LET hits == { a \in filter_to_allowed_appeals(caller) :
                          appeals[a].denial = d /\ appeals[a].pending }
          IN
          IF Cardinality(hits) > 1
          THEN /\ last' = Resp("assemble_appeal", caller, d, 0, 500,
                               "Appeal.MultipleObjectsReturned")
               /\ UNCHANGED <<idvars, tokvars, now, reqs, apvars>>
          ELSE IF denials[d].patient = NoUser
          THEN /\ last' = Resp("assemble_appeal", caller, d, 0, 500,
                               "Patient user not found on denial")
               /\ UNCHANGED <<idvars, tokvars, now, reqs, apvars>>
          ELSE LET a == IF hits = {} THEN 0 ELSE CHOOSE x \in hits : TRUE
                   id == IF a = 0 THEN NextAppealId ELSE a
               IN
               /\ a = 0 => Room(1)
               /\ appeals' = [appeals EXCEPT ![id] =
                    create_or_update_appeal(a, d, users[caller].domain)]
               /\ last' = Resp("assemble_appeal", caller, d, id, 201, "appeal_id")
               /\ UNCHANGED <<idvars, tokvars, now, reqs, denials, faxed, qavars, notices, readvars>>

\* PatientUser.objects.get(user=current_user), None when there is none
PatientOf(u) == IF patients[u].exists THEN u ELSE NoUser

\* the hand-off test of send_fax
HandsOffToProfessional_Never(caller, a) == FALSE

HandsOffToProfessional(caller, a) ==
  /\ appeals[a].patient = PatientOf(caller)
  /\ denials[appeals[a].denial].professional_to_finish

\* send_fax with a send branch that neither clears pending nor dispatches
SendFax_KeepPending(caller, a) ==
  /\ Authenticated(caller)
  /\ IF a \notin filter_to_allowed_appeals(caller)
     THEN /\ last' = Resp("send_fax", caller, a, 0, 404, "Not found")
          /\ UNCHANGED <<idvars, tokvars, now, reqs, apvars>>
     ELSE IF HandsOffToProfessional(caller, a)
     THEN /\ appeals' = [appeals EXCEPT ![a].fax_number = "request",
                                        ![a].pending_patient = FALSE,
                                        ![a].pending_professional = TRUE,
                                        ![a].pending = TRUE]
          /\ last' = Resp("send_fax", caller, a, 0, 200, "pending_professional")
          /\ UNCHANGED <<idvars, tokvars, now, reqs, denials, faxed, qavars, notices, readvars>>
     ELSE /\ appeals' = [appeals EXCEPT ![a].fax_number = "request",
                                        ![a].pending_patient = FALSE,
                                        ![a].pending_professional = FALSE]
          /\ last' = Resp("send_fax", caller, a, 0, 204, "")
          /\ UNCHANGED <<idvars, tokvars, now, reqs, denials, faxed, qavars, notices, readvars>>

\* AppealViewSet.send_fax
SendFax(caller, a) ==
  /\ Authenticated(caller)
  /\ IF a \notin filter_to_allowed_appeals(caller)
     THEN /\ last' = Resp("send_fax", caller, a, 0, 404, "Not found")
          /\ UNCHANGED <<idvars, tokvars, now, reqs, apvars>>
     ELSE IF HandsOffToProfessional(caller, a)
     THEN /\ appeals' = [appeals EXCEPT ![a].fax_number = "request",
                                        ![a].pending_patient = FALSE,
                                        ![a].pending_professional = TRUE,
                                        ![a].pending = TRUE]
          /\ last' = Resp("send_fax", caller, a, 0, 200, "pending_professional")
          /\ UNCHANGED <<idvars, tokvars, now, reqs, denials, faxed, qavars, notices, readvars>>
     ELSE \* SendFaxHelper.stage_appeal_as_fax and remote_send_fax dispatch
          \* the fax and mark the appeal sent
          /\ appeals' = [appeals EXCEPT ![a].fax_number = "request",
                                        ![a].pending_patient = FALSE,
                                        ![a].pending_professional = FALSE,
                                        ![a].pending = FALSE,
                                        ![a].sent = TRUE]
          /\ faxed' = faxed \cup {a}
          /\ last' = Resp("send_fax", caller, a, 0, 204, "")
          /\ UNCHANGED <<idvars, tokvars, now, reqs, denials, qavars, notices, readvars>>

\* notify_patient with a flag that is written at every call: an appeal that
\* is already patient-visible is hidden again
NotifyPatient_Toggle(caller, a, include_professional) ==
  /\ Authenticated(caller)
  /\ IF a \notin filter_to_allowed_appeals(caller)
     THEN /\ last' = Resp("notify", caller, a, 0, 404, "Not found")
          /\ UNCHANGED <<idvars, tokvars, now, reqs, apvars>>
     ELSE /\ appeals' = IF ~appeals[a].patient_visible
                        THEN [appeals EXCEPT ![a].patient_visible = TRUE]
                        ELSE [appeals EXCEPT ![a].patient_visible = FALSE]
          /\ IF appeals[a].patient = NoUser
             THEN /\ last' = Resp("notify", caller, a, 0, 404, "Patient not found")
                  /\ UNCHANGED notices
             ELSE IF include_professional /\ ~profs[caller].exists
             THEN /\ last' = Resp("notify", caller, a, 0, 500, "ProfessionalUser.DoesNotExist")
                  /\ UNCHANGED notices
             ELSE /\ notices' = notices \cup
                       {<<a, IF users[appeals[a].patient].is_active
                             THEN "draft" ELSE "invitation",
                          appeals[a].patient_visible>>}
                  /\ last' = Resp("notify", caller, a, 0, 200, "Notification sent")
          /\ UNCHANGED <<idvars, tokvars, now, reqs, denials, faxed, qavars, readvars>>

\* notify_patient: the appeal is marked patient-visible and saved before the
\* patient is looked at; then one of the two notifications is sent
NotifyPatient(caller, a, include_professional) ==
  /\ Authenticated(caller)
  /\ IF a \notin filter_to_allowed_appeals(caller)
     THEN /\ last' = Resp("notify", caller, a, 0, 404, "Not found")
          /\ UNCHANGED <<idvars, tokvars, now, reqs, apvars>>
     ELSE /\ appeals' = IF ~appeals[a].patient_visible
                        THEN [appeals EXCEPT ![a].patient_visible = TRUE]
                        ELSE appeals
          /\ IF appeals[a].patient = NoUser
             THEN /\ last' = Resp("notify", caller, a, 0, 404, "Patient not found")
                  /\ UNCHANGED notices
             ELSE IF include_professional /\ ~profs[caller].exists
             THEN /\ last' = Resp("notify", caller, a, 0, 500, "ProfessionalUser.DoesNotExist")
                  /\ UNCHANGED notices
             ELSE /\ notices' = notices \cup
                       {<<a, IF users[appeals[a].patient].is_active
                             THEN "draft" ELSE "invitation",
                          appeals[a].patient_visible>>}
                  /\ last' = Resp("notify", caller, a, 0, 200, "Notification sent")
          /\ UNCHANGED <<idvars, tokvars, now, reqs, denials, faxed, qavars, readvars>>

\* ------------------------------------------------------------- statistics

Deltas == {"MoM", "QoQ", "YoY", "WoW"}

\* the months of the relativedelta that the branch of the delta steps back
PeriodMonths(delta) ==
  IF delta = "YoY" THEN 12 ELSE IF delta = "QoQ" THEN 3 ELSE 1

\* the current and the previous period of stats
Periods(delta, at) ==
  LET current_period_start == relativedelta_months(at, -PeriodMonths(delta))
      previous_period_start ==
        relativedelta_months(current_period_start, -PeriodMonths(delta))
  IN [period_start |-> current_period_start,
      period_end |-> at,
      previous_start |-> previous_period_start,
      previous_end |->
        IF delta = "YoY"
        THEN minus_microsecond(relativedelta_months(previous_period_start, 1))
        ELSE minus_microsecond(current_period_start)]

\* creation_date__range=(start.date(), end.date()), both ends included
InRange(S, start, end) ==
  { a \in S : DateLE(date(start), appeals[a].creation_date)
               /\ DateLE(appeals[a].creation_date, date(end)) }

\* successful / with_response * 100 evaluated without the test of the
\* denominator: den = 0 stands for the ZeroDivisionError
success_rate_unguarded(successful, with_response) ==
  [num |-> successful * 100, den |-> with_response]

\* (successful / with_response * 100) if with_response > 0 else 0, as the
\* fraction num / den
success_rate(successful, with_response) ==
  IF with_response > 0
  THEN [num |-> successful * 100, den |-> with_response]
  ELSE [num |-> 0, den |-> 1]

\* the counts of one queryset of appeals
Counts(S) ==
  LET successful == Cardinality({a \in S : appeals[a].success})
      with_response == Cardinality({a \in S : appeals[a].response_date # NoDate})
  IN [total |-> Cardinality(S),
      pending |-> Cardinality({a \in S : appeals[a].pending}),
      sent |-> Cardinality({a \in S : appeals[a].sent}),
      successful |-> successful,
      with_response |-> with_response,
      success_rate |-> success_rate(successful, with_response),
      patients |-> Cardinality({appeals[a].patient : a \in S} \ {NoUser})]

Failed(st) ==
  st.current.success_rate.den = 0 \/ st.previous.success_rate.den = 0

\* the response of a statistics request
Answer(op, caller, st) ==
  IF Failed(st)
  THEN Resp(op, caller, 0, 0, 500, "ZeroDivisionError")
  ELSE Resp(op, caller, 0, 0, 200, "statistics")

\* stats
Stats(caller, delta, at) ==
  /\ Authenticated(caller)
  /\ LET w == Periods(delta, at)
         visible == filter_to_allowed_appeals(caller)
         st == [kind |-> "stats", delta |-> delta,
                period_start |-> w.period_start, period_end |-> w.period_end,
                previous_start |-> w.previous_start, previous_end |-> w.previous_end,
                current |-> Counts(InRange(visible, w.period_start, w.period_end)),
                previous |-> Counts(InRange(visible, w.previous_start, w.previous_end))]
     IN /\ statistics' = st
        /\ last' = Answer("stats", caller, st)
  /\ UNCHANGED <<idvars, tokvars, now, reqs, denials, appeals, faxed, qavars, notices, searched>>

\* absolute_stats: no windows; the patients are those of the session's
\* domain when it exists, else those of the visible appeals
AbsoluteStats(caller) ==
  /\ Authenticated(caller)
  /\ LET visible == filter_to_allowed_appeals(caller)
         d == users[caller].domain
         c == Counts(visible)
         st == [NoStatistics EXCEPT
                  !.kind = "absolute",
                  !.current =
                    [c EXCEPT !.patients =
                       IF d \in Domains /\ domains[d].exists
                       THEN Cardinality({u \in Users : patients[u].exists
                                                       /\ users[u].domain = d})
                       ELSE @]]
     IN /\ statistics' = st
        /\ last' = Answer("absolute_stats", caller, st)
  /\ UNCHANGED <<idvars, tokvars, now, reqs, denials, appeals, faxed, qavars, notices, searched>>

\* ------------------------------------------------------------------ search

\* the q parameters tried; "" is the missing or empty query.  The texts field
\* of an appeal holds the queries that its uuid, appeal_text or response_text
\* contains, case ignored.
Queries == {"", "appeal"}

\* the visible appeals that match the query
Matching(caller, q) ==
  { a \in filter_to_allowed_appeals(caller) : q \in appeals[a].texts }

\* search_results.sort(key=mod_date, reverse=True): newest first, and the
\* stable sort keeps appeals of one mod_date in queryset order
RECURSIVE SortByModDate(_)
SortByModDate(S) ==
  IF S = {} THEN <<>>
  ELSE LET first == CHOOSE a \in S :
                      \A b \in S :
                        \/ appeals[a].mod_date > appeals[b].mod_date
                        \/ (appeals[a].mod_date = appeals[b].mod_date /\ a <= b)
       IN <<first>> \o SortByModDate(S \ {first})

\* a slice index of a list of n items, as Python clamps it
SliceIndex(i, n) ==
  IF i < 0 THEN (IF n + i < 0 THEN 0 ELSE n + i)
  ELSE IF i > n THEN n ELSE i

\* list[start:end]
Slice(list, start, end) ==
  LET lo == SliceIndex(start, Len(list))
      hi == SliceIndex(end, Len(list))
  IN IF lo >= hi THEN <<>> ELSE SubSeq(list, lo + 1, hi)

\* search
Search(caller, q, page, page_size) ==
  /\ Authenticated(caller)
  /\ IF q = ""
     THEN /\ searched' = [NoSearch EXCEPT !.caller = caller, !.page = page,
                                       !.page_size = page_size, !.status = 400]
          /\ last' = Resp("search", caller, page, page_size, 400, "Please provide a search query parameter")
     ELSE LET search_results == SortByModDate(Matching(caller, q))
              start_idx == (page - 1) * page_size
              end_idx == start_idx + page_size
          IN IF page_size = 0
             THEN /\ searched' = [NoSearch EXCEPT !.q = q, !.caller = caller, !.page = page,
                                               !.page_size = page_size, !.status = 500]
                  /\ last' = Resp("search", caller, page, page_size, 500, "ZeroDivisionError")
             ELSE /\ searched' = [q |-> q, caller |-> caller, page |-> page,
                              page_size |-> page_size, status |-> 200,
                              count |-> Len(search_results),
                              next |-> page < (Len(search_results) \div page_size) + 1,
                              previous |-> page > 1,
                              results |-> Slice(search_results, start_idx, end_idx)]
                  /\ last' = Resp("search", caller, page, page_size, 200, "results")
  /\ UNCHANGED <<idvars, tokvars, now, reqs, denials, appeals, faxed, qavars, notices, statistics>>

\* ------------------------------------------------------------ QA capture

\* the qa dictionaries a request can carry: up to MaxPairs entries with
\* distinct keys, in the order the request lists them
QARequests ==
  { r \in UNION { [1..n -> Questions \X Answers] : n \in 1..MaxPairs } :
      \A i, j \in DOMAIN r : i # j => r[i][1] # r[j][1] }

\* one turn of the loop over the request with every answer appended as a new
\* row
upsert_qa_append(records, key, value) ==
  IF key = "" \/ value = ""
  THEN records
  ELSE Append(records, [question |-> key, text_answer |-> value])

\* one turn of the loop over the request: blank keys and blank values are
\* skipped, the DenialQA row of the question is overwritten, or created when
\* there is none
upsert_qa(records, key, value) ==
  IF key = "" \/ value = ""
  THEN records
  ELSE IF \E i \in DOMAIN records : records[i].question = key
  THEN [i \in DOMAIN records |->
          IF records[i].question = key
          THEN [records[i] EXCEPT !.text_answer = value]
          ELSE records[i]]
  ELSE Append(records, [question |-> key, text_answer |-> value])

RECURSIVE upsert_all(_, _)
upsert_all(records, r) ==
  IF r = <<>> THEN records
  ELSE upsert_all(upsert_qa(records, Head(r)[1], Head(r)[2]), Tail(r))

\* the qa_context string: "question: answer\n" of every row in read order
RECURSIVE Context(_)
Context(records) ==
  IF records = <<>> THEN <<>>
  ELSE <<Head(records).question, ": ", Head(records).text_answer, "\n">>
         \o Context(Tail(records))

\* history of the answers submitted for the denial
Asked(old, r) ==
  [q \in AskedQuestions |->
     IF \E i \in DOMAIN r : r[i][1] = q
     THEN LET v == r[CHOOSE i \in DOMAIN r : r[i][1] = q][2] IN
          [last |-> v, nonblank |-> IF v = "" THEN old[q].nonblank ELSE v]
     ELSE old[q]]

\* QAResponseViewSet.perform_create
QACapture(caller, d, r) ==
  /\ Authenticated(caller)
  /\ IF d \notin filter_to_allowed_denials(caller)
     THEN /\ last' = Resp("qa", caller, d, 0, 500, "Denial.DoesNotExist")
          /\ UNCHANGED <<idvars, tokvars, now, reqs, apvars>>
     ELSE /\ qa' = [qa EXCEPT ![d] = upsert_all(qa[d], r)]
          /\ qa_context' = [qa_context EXCEPT ![d] = Context(qa'[d])]
          /\ asked' = [asked EXCEPT ![d] = Asked(asked[d], r)]
          /\ last' = Resp("qa", caller, d, 0, 204, "")
          /\ UNCHANGED <<idvars, tokvars, now, reqs, denials, appeals, faxed, notices, readvars>>

\* accept when user_is_admin_in_domain raises: the except of the first try
\* block answers 401
AcceptCheckRaises(caller, p, d) ==
  /\ Authenticated(caller)
  /\ last' = Resp("accept_check_raises", caller, p, d, 401, "Authentication error")
  /\ UNCHANGED <<idvars, tokvars, now, reqs, apvars>>

\* reject when user_is_admin_in_domain raises: the call is in no try block
RejectCheckRaises(caller, p, d) ==
  /\ Authenticated(caller)
  /\ last' = Resp("reject_check_raises", caller, p, d, 500, "Exception")
  /\ UNCHANGED <<idvars, tokvars, now, reqs, apvars>>

\* AppealViewSet.retrieve
Retrieve(caller, a) ==
  /\ Authenticated(caller)
  /\ IF a \notin filter_to_allowed_appeals(caller)
     THEN last' = Resp("retrieve", caller, a, 0, 404, "Not found")
     ELSE last' = Resp("retrieve", caller, a, 0, 200, "appeal")
  /\ UNCHANGED <<idvars, tokvars, now, reqs, apvars>>

\* the guard shared by list_active_in_domain and list_pending_in_domain, on
\* the domain of the caller's session
ListInDomain(op, caller) ==
  LET d == users[caller].domain IN
  /\ Authenticated(caller)
  /\ IF ~profs[caller].exists
     THEN \* ProfessionalUser.objects.get(user=current_user) raises
          last' = Resp(op, caller, 0, d, 500, "ProfessionalUser.DoesNotExist")
     ELSE IF ~(rel[<<caller, d>>].exists /\ rel[<<caller, d>>].active)
     THEN last' = Resp(op, caller, 0, d, 404, "Not found")
     ELSE last' = Resp(op, caller, 0, d, 200, "professionals")
  /\ UNCHANGED <<idvars, tokvars, now, reqs, apvars>>

\* ProfessionalUserViewSet.list_active_in_domain
ListActiveInDomain(caller) == ListInDomain("list_active_in_domain", caller)

\* ProfessionalUserViewSet.list_pending_in_domain
ListPendingInDomain(caller) == ListInDomain("list_pending_in_domain", caller)

\* the clock advances
Tick ==
  /\ now + TickHours <= MaxTime
  /\ now' = now + TickHours
  /\ UNCHANGED <<idvars, tokvars, last, reqs, apvars>>

vars == <<users, profs, patients, domains, seats, rel, vtok, rtok, nextTok,
          now, last, uses, issued, reqs, denials, appeals, faxed,
          qa, qa_context, asked, notices, statistics, searched>>

\* ------------------------------------------------------- specifications

Passwords == {1, 2}

\* membership workflow: signup, email verification, accept, reject
\* the ids a request can name: those of the rows that exist and one id of no
\* row (every id of no row is answered alike)
KnownUsers == { u \in Users : u <= NextUserId }
KnownDomains == { d \in Domains : d <= NextDomainId }
KnownPhones == { ph \in Phones : ph <= NextDomainId }
KnownTokens == { t \in Tokens : t <= nextTok + 1 }

\* accept and reject refuse a caller who is not an admin before they look
\* the professional up: such a caller names their own id
AdminOrSelf(c, p, d) == user_is_admin_in_domain(c, d) \/ p = c

Next ==
  \/ \E name \in RawNames, phone \in KnownPhones, nd \in BOOLEAN,
        info \in {"absent", "same", "other"} : Signup(name, phone, nd, info)
  \/ \E c \in Users, p \in KnownUsers, d \in KnownDomains, ok \in BOOLEAN :
        AdminOrSelf(c, p, d) /\ Accept(c, p, d, ok)
  \/ \E c \in Users, p \in KnownUsers, d \in KnownDomains :
        AdminOrSelf(c, p, d) /\ Reject(c, p, d)
  \/ \E u \in KnownUsers, t \in KnownTokens : Verify(u, t)

Spec == Init /\ [][Next]_vars

\* token lifecycle: issue, consume and expire over time
TokenNext ==
  \/ \E name \in {<<"www.", "a">>} : Signup(name, 1, FALSE, "absent")
  \/ \E u \in KnownUsers, t \in KnownTokens : Verify(u, t)
  \/ \E u \in KnownUsers : Resend(u)
  \/ \E u \in KnownUsers : RequestReset(u)
  \/ \E t \in KnownTokens, pw \in {2} : FinishReset(t, pw)
  \/ Tick

\* the practice of the initial state has a subscription
TokenInit == Init /\ domains[1].sub

TokenSpec == TokenInit /\ [][TokenNext]_vars

\* denial and appeal workflow; the denial requests name professional 1 as
\* primary_professional, with or without patient 2
AppealNext ==
  \/ \E c \in Users, did \in {0} \cup DenialIds, pat \in {NoUser, 2},
        pri \in {1}, ptf \in BOOLEAN : DenialCreate(c, did, pat, pri, ptf)
  \/ \E c \in Users, d \in DenialIds : AssembleAppeal(c, d)
  \/ \E c \in Users, a \in AppealIds : SendFax(c, a)

AppealSpec == TokenInit /\ [][AppealNext]_vars

\* QA capture on the first denial of patient 2; the other denial ids are
\* asked for while no such denial exists
QANext ==
  \/ \E c \in Users :
        NextDenialId = 1 /\ DenialCreate(c, 0, IF profs[c].exists THEN 2 ELSE NoUser, 1, FALSE)
  \/ \E c \in Users, d \in DenialIds, r \in QARequests :
        (d \notin filter_to_allowed_denials(c) => r = <<<<"", "">>>>) /\ QACapture(c, d, r)

QASpec == TokenInit /\ [][QANext]_vars

\* the appeals of the first denial, the one created with it and one assembled
\* later: assembled, faxed, and the patient notified
NotifyNext ==
  \/ \E c \in Users, pat \in {NoUser, 2} :
        /\ NextDenialId = 1
        /\ ~profs[c].exists => pat = NoUser
        /\ DenialCreate(c, 0, pat, 1, FALSE)
  \/ \E c \in Users, d \in DenialIds : NextAppealId <= 2 /\ AssembleAppeal(c, d)
  \/ \E c \in Users, a \in AppealIds : SendFax(c, a)
  \/ \E c \in Users, a \in AppealIds, ip \in BOOLEAN :
        (a \notin filter_to_allowed_appeals(c) => ~ip) /\ NotifyPatient(c, a, ip)

NotifySpec == TokenInit /\ [][NotifyNext]_vars

\* the clock readings of the statistics requests: a month end at noon, a
\* leap day, and a midnight
Instants ==
  { <<2025, 3, 31, 43200, 500000>>, <<2024, 2, 29, 1, 0>>, <<2025, 3, 1, 0, 0>> }

CreationDates == << <<2025, 3, 15>>, <<2025, 2, 28>> >>

\* the k-th kind of appeal of denial 1 of patient 2: with or without
\* success, with or without a response, created on either date
NumKinds == 4 * Len(CreationDates)
StatsAppeal(k) ==
  LET success == (k - 1) % 2 = 1
      responded == ((k - 1) \div 2) % 2 = 1
      created == CreationDates[((k - 1) \div 4) + 1]
  IN [NewAppeal(1, 2, 1, 1, 1, TRUE) EXCEPT
        !.success = success,
        !.response_date = IF responded THEN created ELSE NoDate,
        !.pending = ~responded, !.sent = responded, !.creation_date = created]

\* any number of appeals of any kinds; the counts do not depend on which id
\* carries which kind, so the kinds are laid out in descending order
StatsInit ==
  /\ InitRest
  /\ domains[1].sub
  /\ denials = [d \in DenialIds |->
       IF d = 1
       THEN [exists |-> TRUE, patient |-> 2, primary |-> 1, creating |-> 1,
             domain |-> 1, professional_to_finish |-> FALSE]
       ELSE NoDenial]
  /\ \E kind \in [AppealIds -> 0..NumKinds] :
       /\ \A a, b \in AppealIds : a < b => kind[a] >= kind[b]
       /\ appeals = [a \in AppealIds |->
            IF kind[a] = 0 THEN NoAppeal ELSE StatsAppeal(kind[a])]

\* the requests of professional 1, who sees every appeal of StatsInit
StatsNext ==
  \/ \E c \in {1}, delta \in Deltas, at \in Instants : Stats(c, delta, at)
  \/ \E c \in {1} : AbsoluteStats(c)

StatsSpec == StatsInit /\ [][StatsNext]_vars

\* denials of patient 2 created by a professional, left to the professional
\* to finish or not, then assembled and faxed
FaxNext ==
  \/ \E c \in Users, ptf \in BOOLEAN :
        /\ ~profs[c].exists => ~ptf
        /\ DenialCreate(c, 0, IF profs[c].exists THEN 2 ELSE NoUser, 1, ptf)
  \/ \E c \in Users, d \in DenialIds : AssembleAppeal(c, d)
  \/ \E c \in Users, a \in AppealIds : SendFax(c, a)

FaxSpec == TokenInit /\ [][FaxNext]_vars

\* the kinds of appeal of a search: matching the query "appeal" or not,
\* modified at hour 1 or 2
SearchAppeal(k) ==
  [NewAppeal(1, 2, 1, 1, 1, TRUE) EXCEPT
     !.texts = IF (k - 1) % 2 = 1 THEN {"appeal"} ELSE {},
     !.mod_date = ((k - 1) \div 2) + 1]

\* any number of appeals of any kinds, in any order
SearchInit ==
  /\ InitRest
  /\ domains[1].sub
  /\ denials = [d \in DenialIds |->
       IF d = 1
       THEN [exists |-> TRUE, patient |-> 2, primary |-> 1, creating |-> 1,
             domain |-> 1, professional_to_finish |-> FALSE]
       ELSE NoDenial]
  /\ \E kind \in [AppealIds -> 0..4] :
       /\ \A a, b \in AppealIds : a < b /\ kind[a] = 0 => kind[b] = 0
       /\ appeals = [a \in AppealIds |->
            IF kind[a] = 0 THEN NoAppeal ELSE SearchAppeal(kind[a])]

\* the searches of professional 1, who sees every appeal of SearchInit
SearchNext ==
  \E c \in {1}, q \in Queries, page \in 1..MaxPage, page_size \in 0..MaxPageSize :
     /\ q = "" => page = 1 /\ page_size = 1
     /\ Search(c, q, page, page_size)

SearchSpec == SearchInit /\ [][SearchNext]_vars

\* signups under names that carry one prefix, or the same prefix twice, and
\* the verification of the new users
PrefixedNames == RawNames \cup { <<"www.", "www.", "a">> }

NameNext ==
  \/ \E name \in PrefixedNames, phone \in KnownPhones, nd \in BOOLEAN :
        Signup(name, phone, nd, IF nd THEN "same" ELSE "absent")
  \/ \E u \in KnownUsers, t \in KnownTokens : Verify(u, t)

NameSpec == Init /\ [][NameNext]_vars

\* overlapping accepts of the professionals who signed up into practice 1
RaceNext ==
  \/ \E name \in {<<"www.", "a">>} : Signup(name, 1, FALSE, "absent")
  \/ \E i \in Clients, c \in {1}, p \in KnownUsers, d \in KnownDomains : A_Get(i, c, p, d)
  \/ \E i \in Clients : A_Save(i)
  \/ \E i \in Clients, ok \in BOOLEAN : A_Retrieve(i, ok)
  \/ \E i \in Clients, ok \in BOOLEAN : A_Modify(i, ok)

RaceSpec == TokenInit /\ [][RaceNext]_vars

\* membership requests, with admin checks that may raise
FaultNext ==
  \/ Next
  \/ \E c \in Users, p \in KnownUsers, d \in KnownDomains :
        p = c /\ AcceptCheckRaises(c, p, d)
  \/ \E c \in Users, p \in KnownUsers, d \in KnownDomains :
        p = c /\ RejectCheckRaises(c, p, d)

FaultSpec == Init /\ [][FaultNext]_vars

\* a professional joins the practice, is verified and accepted, and works
\* on denials and appeals of patient 2
VisibilityNext ==
  \/ \E name \in {<<"www.", "a">>} : Signup(name, 1, FALSE, "absent")
  \/ \E u \in KnownUsers, t \in KnownTokens : Verify(u, t)
  \/ \E c \in Users, p \in KnownUsers, d \in KnownDomains :
        AdminOrSelf(c, p, d) /\ Accept(c, p, d, TRUE)
  \/ \E c \in Users : DenialCreate(c, 0, IF profs[c].exists THEN 2 ELSE NoUser, 1, FALSE)
  \/ \E c \in Users, d \in DenialIds : AssembleAppeal(c, d)
  \/ \E c \in Users, a \in AppealIds : Retrieve(c, a)
  \/ \E c \in Users : ListActiveInDomain(c)
  \/ \E c \in Users : ListPendingInDomain(c)

VisibilitySpec == TokenInit /\ [][VisibilityNext]_vars

\* interleaved verify / finish_reset requests, at one instant of the clock
ConcNext ==
  \/ \E name \in {<<"www.", "a">>} : Signup(name, 1, FALSE, "absent")
  \/ \E u \in KnownUsers : RequestReset(u)
  \/ \E i \in Clients, t \in KnownTokens, pw \in Passwords : FR_Get(i, t, pw)
  \/ \E i \in Clients : FR_Save(i)
  \/ \E i \in Clients : FR_Delete(i)
  \/ \E i \in Clients, u \in KnownUsers, t \in KnownTokens : V_Get(i, u, t)
  \/ \E i \in Clients : V_Activate(i)
  \/ \E i \in Clients : V_Delete(i)

ConcSpec == TokenInit /\ [][ConcNext]_vars

\* ------------------------------------------------------------ properties

\* the step handles a request
ReqStep == last'.n # last.n

\* C1: every ProfessionalDomainRelation row has
\* active = (not pending and not suspended and not rejected), in every state
\* reachable by signup, accept and reject.
C1_ActiveIsDerived ==
  \A k \in Users \X Domains :
    rel[k].exists =>
      rel[k].active = (~rel[k].pending /\ ~rel[k].suspended /\ ~rel[k].rejected)

\* an accept has moved a relation out of pending and it is active
C1_Witness ==
  /\ last.op = "accept"
  /\ last.status = 200
  /\ rel[<<last.a, last.b>>].active
  /\ ~rel[<<last.a, last.b>>].pending

\* C2: an accept by a domain admin on a pending relation returns 200
\* "accepted" and increments the seat count of the domain's subscription by
\* one; an accept by a domain admin on a relation that is not pending (the
\* second of two accepts) returns 404 and changes nothing.
C2_AcceptTwice ==
  [][ (ReqStep /\ last'.op = "accept"
       /\ user_is_admin_in_domain(last'.caller, last'.b))
      => IF PendingRelation(last'.a, last'.b)
         THEN /\ last'.status = 200
              /\ domains[last'.b].sub => seats'[last'.b] = seats[last'.b] + 1
         ELSE /\ last'.status = 404
              /\ UNCHANGED <<rel, profs, seats>> ]_vars

\* C3: accept and reject by an authenticated caller who is not an active
\* admin of the target domain return 403 and leave relations, professionals
\* and seat counts unchanged; a relation only ever changes in an accept or
\* reject made by an admin of its domain.
C3_NonAdminNoTransition ==
  [][ /\ (ReqStep /\ last'.op \in {"accept", "reject"}
          /\ ~user_is_admin_in_domain(last'.caller, last'.b))
         => (last'.status = 403 /\ UNCHANGED <<rel, profs, seats>>)
      /\ \A k \in Users \X Domains :
           (rel[k].exists /\ rel'[k] # rel[k])
             => /\ last'.op \in {"accept", "reject"}
                /\ user_is_admin_in_domain(last'.caller, k[2]) ]_vars

\* a caller who is not an admin was refused the reject of a pending relation
C3_Witness ==
  /\ last.op = "reject"
  /\ last.status = 403
  /\ PendingRelation(last.a, last.b)
  /\ ~user_is_admin_in_domain(last.caller, last.b)

\* C4: a relation that is rejected (rejected, not pending) stays rejected
\* and inactive in every later step.
C4_RejectedIsFinal ==
  [][ \A k \in Users \X Domains :
        (rel[k].exists /\ rel[k].rejected /\ ~rel[k].pending)
          => (rel'[k].rejected /\ ~rel'[k].active) ]_vars

\* an admin tried to accept a rejected relation
C4_Witness ==
  /\ last.op = "accept"
  /\ last.status = 404
  /\ user_is_admin_in_domain(last.caller, last.b)
  /\ rel[<<last.a, last.b>>].exists
  /\ rel[<<last.a, last.b>>].rejected

\* C5: a successful verify or finish_reset never uses a token that an
\* earlier successful verify / finish_reset uses, nor one whose
\* expires_at is in the past.
C5_DeadTokenNeverSucceeds ==
  [][ (ReqStep /\ last'.op \in {"verify", "finish_reset"} /\ last'.status = 200)
      => /\ uses[last'.b] = 0
         /\ now <= issued[last'.b].expires_at ]_vars

\* a uses token was presented again and refused
C5_Witness ==
  /\ last.op \in {"verify", "finish_reset"}
  /\ last.b \in Tokens
  /\ uses[last.b] > 0
  /\ last.status = 400

\* the token was issued by a request_reset that a later request_reset for
\* the same user followed
Superseded(t) ==
  /\ issued[t].kind = "reset"
  /\ \E t2 \in Tokens :
       /\ t2 > t
       /\ issued[t2].kind = "reset"
       /\ issued[t2].user = issued[t].user

\* C6: finish_reset with a token that a second request_reset for the same
\* identity superseded fails with "Invalid reset token" and changes no
\* password, also within the token's expiry window; the reset token stored
\* for an identity is always the one its last request_reset issued.
C6_SecondResetInvalidatesFirst ==
  [][ /\ (ReqStep /\ last'.op = "finish_reset" /\ last'.b \in Tokens
          /\ Superseded(last'.b) /\ uses[last'.b] = 0)
         => /\ last'.status = 400
            /\ last'.msg = "Invalid reset token"
            /\ users' = users
      /\ \A u \in Users :
           rtok'[u].exists =>
             ~(\E t2 \in Tokens : /\ t2 > rtok'[u].token
                                  /\ issued'[t2].kind = "reset"
                                  /\ issued'[t2].user = u) ]_vars

\* the first token was presented within its expiry window after the second
\* request_reset and refused
C6_Witness ==
  /\ last.op = "finish_reset"
  /\ last.b \in Tokens
  /\ Superseded(last.b)
  /\ uses[last.b] = 0
  /\ now <= issued[last.b].expires_at
  /\ last.status = 400

\* C7: under interleaved verify / finish_reset requests one token gates at
\* most one activation / password change, and there is no state in which a
\* request has applied the effect while another request in flight has
\* accepted the same token.
C7_TokenGatesOneEffect ==
  /\ \A t \in Tokens : uses[t] <= 1
  /\ \A i, j \in Clients :
       (i # j /\ reqs[i].pc \in {"fr_saved", "v_saved"}
              /\ reqs[j].pc \in {"fr_got", "v_got", "fr_saved", "v_saved"})
         => reqs[i].token # reqs[j].token

\* the pending appeals of a denial
PendingAppealsOf(d) == { a \in AppealsOf(d) : appeals[a].pending }

\* C8: every Denial has at most one pending Appeal.
C8_OnePendingAppealPerDenial ==
  \A d \in DenialIds : Cardinality(PendingAppealsOf(d)) <= 1

\* C9: a first creation of a Denial leaves exactly one Appeal for it,
\* pending and carrying the denial's patient, primary professional and
\* creating professional; an update of a Denial that already has an Appeal
\* creates no Appeal.
C9_DenialCreatesOneAppeal ==
  [][ (ReqStep /\ last'.op = "denial" /\ last'.status = 200)
      => LET d == last'.a IN
         IF ~denials[d].exists
         THEN \E a \in AppealIds :
                /\ { x \in AppealIds : appeals'[x].exists /\ appeals'[x].denial = d } = {a}
                /\ appeals'[a].pending
                /\ appeals'[a].patient = denials'[d].patient
                /\ appeals'[a].primary = denials'[d].primary
                /\ appeals'[a].creating = denials'[d].creating
         ELSE AppealsOf(d) # {} => appeals' = appeals ]_vars

\* C10: send_fax by the user who is the patient on the appeal, for a denial
\* with professional_to_finish, answers 200 "pending_professional", leaves
\* the appeal pending_professional, not pending_patient and pending, and
\* stages and dispatches no fax.
C10_PatientHandsOff ==
  [][ (ReqStep /\ last'.op = "send_fax" /\ last'.a \in AppealIds
       /\ appeals[last'.a].exists
       /\ patients[last'.caller].exists
       /\ appeals[last'.a].patient = last'.caller
       /\ denials[appeals[last'.a].denial].professional_to_finish)
      => /\ last'.status = 200
         /\ last'.msg = "pending_professional"
         /\ appeals'[last'.a].pending_professional
         /\ ~appeals'[last'.a].pending_patient
         /\ appeals'[last'.a].pending
         /\ appeals'[last'.a].sent = appeals[last'.a].sent
         /\ faxed' = faxed ]_vars

\* the patient's send_fax was parked for the professional
C10_Witness ==
  /\ last.op = "send_fax"
  /\ last.status = 200
  /\ patients[last.caller].exists
  /\ appeals[last.a].patient = last.caller
  /\ appeals[last.a].pending_professional
  /\ appeals[last.a].pending
  /\ last.a \notin faxed

PendingMember(c) ==
  /\ c \in Users
  /\ profs[c].exists
  /\ PendingRelation(c, users[c].domain)

\* the caller is a professional whose membership in the domain of their
\* session was accepted
AcceptedMember(c) ==
  /\ c \in Users
  /\ profs[c].exists
  /\ rel[<<c, users[c].domain>>].exists
  /\ rel[<<c, users[c].domain>>].active
  /\ ~rel[<<c, users[c].domain>>].admin

\* C12: a professional whose membership in domain X is pending gets 404
\* when retrieving an appeal of X and when listing X's active or pending
\* professionals; once the membership is accepted the same requests get 200.
C12_PendingMemberSeesNothing ==
  [][ /\ (ReqStep /\ last'.op = "retrieve" /\ last'.a \in AppealIds
          /\ appeals[last'.a].exists
          /\ appeals[last'.a].domain = users[last'.caller].domain)
         => /\ PendingMember(last'.caller) => last'.status = 404
            /\ AcceptedMember(last'.caller) => last'.status = 200
      /\ (ReqStep /\ last'.op \in {"list_active_in_domain", "list_pending_in_domain"})
         => /\ PendingMember(last'.caller) => last'.status = 404
            /\ AcceptedMember(last'.caller) => last'.status = 200 ]_vars

\* the request of this step named a Denial or an Appeal that is not in the
\* caller's visible set: one that does not exist, or one of somebody else
NamedOutsideVisibleSet ==
  \/ /\ last'.op = "assemble_appeal"
     /\ last'.a \notin filter_to_allowed_denials(last'.caller)
  \/ /\ last'.op = "denial"
     /\ profs[last'.caller].exists
     /\ last'.a \in DenialIds
     /\ denials[last'.a].exists
     /\ last'.a \notin filter_to_allowed_denials(last'.caller)
  \/ /\ last'.op = "send_fax"
     /\ last'.a \notin filter_to_allowed_appeals(last'.caller)

\* C13: a request that names a Denial or Appeal outside the caller's visible
\* set is answered 404 "Not found", whether or not the record exists, and
\* changes no state.
C13_InvisibleIsNotFound ==
  [][ (ReqStep /\ NamedOutsideVisibleSet)
      => /\ last'.status = 404
         /\ last'.msg = "Not found"
         /\ UNCHANGED <<idvars, tokvars, apvars>> ]_vars

\* C14: accept and reject by an admin of the domain, for a professional and
\* domain with no pending relation, answer 404 and change no state.
C14_NoPendingRelationIsNotFound ==
  [][ (ReqStep /\ last'.op \in {"accept", "reject"}
       /\ user_is_admin_in_domain(last'.caller, last'.b)
       /\ ~PendingRelation(last'.a, last'.b))
      => /\ last'.status = 404
         /\ UNCHANGED <<idvars, tokvars, apvars>> ]_vars

\* C15: an accept or reject whose admin check raises is answered 403 and
\* changes no relation, professional, seat count or other row.
C15_CheckFailsClosed ==
  [][ (ReqStep /\ last'.op \in {"accept_check_raises", "reject_check_raises"})
      => /\ last'.status = 403
         /\ UNCHANGED <<idvars, tokvars, apvars>> ]_vars

\* C16: a verify or finish_reset that presents a stored token after its
\* expiry deletes the token row, applies no effect, and is answered with an
\* "expired" error that differs from the answer for an unknown token.
C16_ExpiredTokenIsDeleted ==
  [][ /\ (ReqStep /\ last'.op = "verify" /\ last'.a \in Users
          /\ users[last'.a].exists
          /\ vtok[last'.a].exists /\ vtok[last'.a].token = last'.b
          /\ now > vtok[last'.a].expires_at)
         => /\ ~vtok'[last'.a].exists
            /\ users' = users
            /\ last'.msg = "Activation link has expired"
            /\ last'.status # 200
      /\ (ReqStep /\ last'.op = "finish_reset"
          /\ \E u \in ResetTokenOwners(last'.b) : now > rtok[u].expires_at)
         => /\ \A u \in Users : ~(rtok'[u].exists /\ rtok'[u].token = last'.b)
            /\ users' = users
            /\ last'.msg = "Reset token has expired"
            /\ last'.status # 200 ]_vars

\* the DenialQA rows of the denial for the question
RowsFor(d, q) == { i \in DOMAIN qa[d] : qa[d][i].question = q }

\* C17 as stated: every non-blank question submitted so far has exactly one
\* DenialQA row, holding the latest answer submitted for it, and qa_context
\* is the concatenation of "question: answer\n" over the rows in read order.
C17_OneRowPerQuestionSubmitted ==
  \A d \in DenialIds :
    /\ \A q \in AskedQuestions :
         asked[d][q].last # NoAnswer
           => \E i \in DOMAIN qa[d] :
                /\ RowsFor(d, q) = {i}
                /\ qa[d][i].text_answer = asked[d][q].last
    /\ qa_context[d] = Context(qa[d])

\* C17 amended: every non-blank question submitted so far with a non-blank
\* answer has exactly one DenialQA row, holding the latest non-blank answer
\* submitted for it; there is no other row; and qa_context is the
\* concatenation of "question: answer\n" over the rows in read order.
C17_OneRowPerAnsweredQuestion ==
  \A d \in DenialIds :
    /\ \A q \in AskedQuestions :
         IF asked[d][q].nonblank = NoAnswer
         THEN RowsFor(d, q) = {}
         ELSE \E i \in DOMAIN qa[d] :
                /\ RowsFor(d, q) = {i}
                /\ qa[d][i].text_answer = asked[d][q].nonblank
    /\ RowsFor(d, "") = {}
    /\ qa_context[d] = Context(qa[d])

\* a QA capture has overwritten an answer and a blank answer was skipped:
\* two rows, one holding an answer that replaced another
C17_Witness ==
  /\ last.op = "qa"
  /\ last.status = 204
  /\ Len(qa[last.a]) = 2
  /\ qa_context[last.a] # <<>>
  /\ \E q \in AskedQuestions :
       asked[last.a][q].last = "" /\ asked[last.a][q].nonblank # NoAnswer

\* C18: an appeal's patient_visible flag, once true, is never set back to
\* false by any step, and notify_patient on an appeal that is already
\* patient-visible leaves the appeal records unchanged.
C18_PatientVisibleIsOneWay ==
  [][ /\ \A a \in AppealIds :
           appeals[a].exists /\ appeals[a].patient_visible
             => appeals'[a].exists /\ appeals'[a].patient_visible
      /\ (/\ ReqStep
          /\ last'.op = "notify"
          /\ last'.a \in AppealIds
          /\ appeals[last'.a].exists
          /\ appeals[last'.a].patient_visible)
         => appeals' = appeals ]_vars

\* the patient of a patient-visible appeal has been notified a second time
C18_Witness ==
  /\ last.op = "notify"
  /\ last.status = 200
  /\ appeals[last.a].patient_visible
  /\ \E t \in {"draft", "invitation"} : <<last.a, t, TRUE>> \in notices

\* C19: for every delta selector the previous window of stats ends
\* immediately before the current window starts and has the same length,
\* the period of the selector.
C19_PreviousWindowAdjacentSameLength ==
  statistics.kind = "stats"
    => /\ plus_microsecond(statistics.previous_end) = statistics.period_start
       /\ statistics.period_start
            = relativedelta_months(statistics.period_end, -PeriodMonths(statistics.delta))
       /\ statistics.previous_start
            = relativedelta_months(statistics.period_start, -PeriodMonths(statistics.delta))

\* the rate is the fraction n / d of the counts
IsFraction(r, n, d) == r.den # 0 /\ r.num * d = n * r.den

RateIs(c, factor) ==
  /\ c.success_rate.den # 0
  /\ IF c.with_response > 0
     THEN IsFraction(c.success_rate, factor * c.successful, c.with_response)
     ELSE c.success_rate.num = 0

\* C20 as stated: in stats and absolute_stats the success rate is
\* successful / (appeals with a response) when the denominator is positive
\* and 0 when it is zero, and the request never fails.
C20_RateIsRatio ==
  statistics.kind # "none"
    => /\ last.status = 200
       /\ RateIs(statistics.current, 1)
       /\ RateIs(statistics.previous, 1)

\* C20 amended: the success rate is the percentage 100 * successful /
\* (appeals with a response) when the denominator is positive and 0 when it
\* is zero, and the request never fails.
C20_RateIsPercentage ==
  statistics.kind # "none"
    => /\ last.status = 200
       /\ RateIs(statistics.current, 100)
       /\ RateIs(statistics.previous, 100)

\* both cases in one stats response: a window with responses and successes,
\* and a window with appeals none of which has a response
C20_Witness ==
  /\ statistics.kind = "stats"
  /\ statistics.current.with_response > 0
  /\ statistics.current.successful > 0
  /\ statistics.previous.total > 0
  /\ statistics.previous.with_response = 0
  /\ statistics.previous.success_rate.num = 0

\* absolute_stats over appeals none of which has a response
C20_WitnessAbsolute ==
  /\ statistics.kind = "absolute"
  /\ statistics.current.total > 0
  /\ statistics.current.with_response = 0

\* the items at positions lo .. hi - 1 (counted from 0) of the list
Positions(list, lo, hi) ==
  IF lo >= hi THEN <<>> ELSE SubSeq(list, lo + 1, hi)

\* C21: a search with N matching results, page p >= 1 and page size s >= 1
\* returns the items at positions (p-1)*s .. min(p*s, N) - 1 of the results
\* sorted by mod_date descending, count = N, previous = (p > 1), and next
\* exactly when matching results remain after the returned page.
C21_PageOfResults ==
  (searched.q # "" /\ searched.page >= 1 /\ searched.page_size >= 1)
    => LET sorted == SortByModDate(Matching(searched.caller, searched.q))
           N == Len(sorted)
           lo == (searched.page - 1) * searched.page_size
           top == searched.page * searched.page_size
           hi == IF top < N THEN top ELSE N
       IN /\ searched.status = 200
          /\ searched.results = Positions(sorted, lo, hi)
          /\ searched.count = N
          /\ searched.previous = (searched.page > 1)
          /\ searched.next = (top < N)

\* a name without a leading http://, https:// or www.
Normalized(name) == name = <<>> \/ Head(name) \notin {"http://", "https://", "www."}

\* the name with every leading prefix removed
RECURSIVE FullyCleaned(_)
FullyCleaned(name) ==
  IF Normalized(name) THEN name ELSE FullyCleaned(Tail(name))

\* C22: every stored UserDomain name is normalized, and no two stored
\* domains have the same normalized name.
C22_NamesNormalizedAndUnique ==
  /\ \A d \in Domains : domains[d].exists => Normalized(domains[d].name)
  /\ \A d, e \in Domains :
       (domains[d].exists /\ domains[e].exists /\ d # e)
         => FullyCleaned(domains[d].name) # FullyCleaned(domains[e].name)

\* C23: accept has no atomic guard.  A request that has passed the lookup of
\* the pending relation is never turned away afterwards: its saves are made
\* whatever the relation has become, and when Stripe answers it ends with
\* 200 and the quantity it read plus one.
C23_AcceptHasNoGuard ==
  [][ \A i \in Clients :
        /\ (reqs[i].pc = "a_got" /\ reqs'[i].pc # "a_got")
             => /\ ~rel'[<<reqs[i].user, reqs[i].domain>>].pending
                /\ profs'[reqs[i].user].active
                /\ \/ reqs'[i].pc = "a_saved"
                   \/ (ReqStep /\ last'.status = 200)
        /\ (reqs[i].pc = "a_read" /\ reqs'[i].pc = "idle" /\ last'.status = 200)
             => seats'[reqs[i].domain] = reqs[i].quantity + 1 ]_vars

\* two accepts of the one relation of practice 1 have both succeeded and the
\* seat count, 1 at first, was incremented twice
C23_Witness ==
  /\ last.op = "accept"
  /\ last.status = 200
  /\ seats[1] = 3
  /\ Cardinality({p \in Users : p # 1 /\ rel[<<p, 1>>].exists}) = 1
  /\ \A i \in Clients : reqs[i].pc = "idle"

\* C24: send_fax by a caller without a PatientUser profile takes the send
\* branch for every visible appeal: the three pending flags are cleared and
\* the fax is dispatched; the call is never parked in pending_professional.
C24_NonPatientAlwaysSends ==
  [][ (/\ ReqStep
       /\ last'.op = "send_fax"
       /\ ~patients[last'.caller].exists
       /\ last'.a \in filter_to_allowed_appeals(last'.caller))
      => /\ last'.status = 204
         /\ ~appeals'[last'.a].pending
         /\ ~appeals'[last'.a].pending_patient
         /\ ~appeals'[last'.a].pending_professional
         /\ last'.a \in faxed' ]_vars

\* C25: accept is all-or-nothing with respect to the subscription: a step of
\* accept that moves a relation of a domain with a subscription out of
\* pending also applies the seat increment, and answers 200.
C25_AcceptedMeansSeatCounted ==
  [][ (/\ ReqStep
       /\ last'.op = "accept"
       /\ last'.a \in Users /\ last'.b \in Domains
       /\ domains[last'.b].sub
       /\ rel[<<last'.a, last'.b>>].pending
       /\ ~rel'[<<last'.a, last'.b>>].pending)
      => /\ seats'[last'.b] = seats[last'.b] + 1
         /\ last'.status = 200 ]_vars

\* C26: a notify_patient answered 404 "Patient not found" leaves the appeal
\* unchanged, patient_visible included, and sends no notification.
C26_FailedNotifyChangesNothing ==
  [][ (ReqStep /\ last'.op = "notify" /\ last'.status = 404
       /\ last'.msg = "Patient not found")
      => /\ appeals' = appeals
         /\ notices' = notices ]_vars

\* the domain a signup without make_new_domain joins: the one matching by
\* name or, failing that, by visible phone number
MatchedDomains(name, phone) ==
  IF find_by_name(name) # {} THEN find_by_name(name) ELSE find_by_phone(phone)

\* C27: a professional signup with make_new_domain=false completes whenever
\* a domain matches by name or, failing that, by phone: it creates the user,
\* an inactive ProfessionalUser and a pending, non-admin, inactive relation
\* in the matched domain.  It answers 400 "Domain does not exist" and
\* creates nothing only when neither matches.
C27_JoinByNameOrPhone ==
  [][ \A name \in RawNames, phone \in Phones :
        Signup(name, phone, FALSE, "absent")
          => IF MatchedDomains(name, phone) # {}
             THEN /\ last'.status = 200
                  /\ users'[last'.caller].exists /\ ~users[last'.caller].exists
                  /\ profs'[last'.caller] = [exists |-> TRUE, active |-> FALSE]
                  /\ \E d \in MatchedDomains(name, phone) :
                       LET r == rel'[<<last'.caller, d>>] IN
                       r.exists /\ r.pending /\ ~r.admin /\ ~r.active
             ELSE /\ last'.status = 400
                  /\ last'.msg = "Domain does not exist"
                  /\ UNCHANGED <<idvars, tokvars>> ]_vars

\* C28: after a successful verify the user is active with email_verified,
\* the token is deleted, and every PatientUser and ProfessionalUser profile
\* of the user is active.
C28_VerifyActivatesProfiles ==
  [][ (ReqStep /\ last'.op = "verify" /\ last'.status = 200)
      => /\ users'[last'.a].is_active
         /\ users'[last'.a].email_verified
         /\ ~vtok'[last'.a].exists
         /\ profs'[last'.a].exists => profs'[last'.a].active
         /\ patients'[last'.a].exists => patients'[last'.a].active ]_vars

\* C29: the current and the previous window of stats, as applied to the
\* appeals, are disjoint: no appeal is counted in both by its creation_date.
C29_WindowsDisjoint ==
  statistics.kind = "stats"
    => LET visible == filter_to_allowed_appeals(last.caller) IN
       InRange(visible, statistics.period_start, statistics.period_end)
         \cap InRange(visible, statistics.previous_start, statistics.previous_end) = {}

\* the counts give a rate between 0 and 100 percent that is not 0 when an
\* appeal was successful
RateInRange(c) ==
  /\ c.successful <= c.with_response
  /\ c.success_rate.den > 0
  /\ c.success_rate.num >= 0
  /\ c.success_rate.num <= 100 * c.success_rate.den
  /\ c.successful > 0 => c.success_rate.num > 0

\* C30: the success rate of stats and absolute_stats is between 0 and 100
\* percent: the appeals counted as successful never outnumber those counted
\* as having a response, and a set with a successful appeal never reports 0.
C30_RateBetween0And100 ==
  statistics.kind # "none"
    => RateInRange(statistics.current) /\ RateInRange(statistics.previous)

====
